---- MODULE Spec2Model ----
(***************************************************************************)
(* A model of showmylog.py: parsing of *.mylog files into Records, gap     *)
(* filling, augmentation with the current time, aggregation of durations   *)
(* and the per-file loop of main() with its error list and exit status.    *)
(*                                                                         *)
(* Strings are sequences of one-character strings, so that parsing is      *)
(* computed from the characters.  A time of day (datetime.time) is the     *)
(* number of minutes since 00:00 and a timedelta is a number of minutes    *)
(* (possibly negative); datetime.now() is drawn from the set Nows, at the   *)
(* full minute.  What the run prints and the files of the report (colors,  *)
(* style, template, output) are left out.                                  *)
(* An Optional value is a sequence of length 0 (None) or 1.                *)
(* An entry of the global list `errors` is the kind of its message.        *)
(***************************************************************************)
EXTENDS Integers, Sequences, FiniteSets, TLC

VARIABLES
    pc,               \* position of the run
    args,             \* the parsed command line: use_now, stale_limit, ignore_missing
    errors,           \* global list errors (line 35)
    printed_now,      \* global flag printed_now (line 36)
    lineno,           \* parse_file: number of lines read from the open file
    records,          \* parse_file / main: the local list records
    prev_record,      \* parse_file: the local prev_record (Optional)
    now,              \* augment_records_with_current_time: now (Optional)
    all_agg,          \* main: get_total_times(records, None)
    type_agg,         \* main: get_total_times(records, 'activity_type')
    label_agg,        \* main: get_total_times(records, 'label')
    sublabel_agg,     \* get_total_times(records, 'sublabel')
    fileno,           \* main: number of paths of fpaths taken so far
    all_aggs,         \* main: running totals, no grouping
    type_aggs,        \* main: running totals by activity type
    label_aggs,       \* main: running totals by label
    total_total_time, \* main: sum of the files' spans
    days,             \* main: report_context['days']
    merged,           \* history: the per-file maps given to add_to_dict, in order
    status            \* main: its return value (Optional)

vars == <<pc, args, errors, printed_now, lineno, records, prev_record, now,
          all_agg, type_agg, label_agg, sublabel_agg, fileno, all_aggs, type_aggs, label_aggs,
          total_total_time, days, merged, status>>

(***************************************************************************)
(* Bounds of the model.                                                    *)
(***************************************************************************)
MaxLines == 3
MaxFiles == 2

(***************************************************************************)
(* Characters and strings.                                                 *)
(***************************************************************************)
None == <<>>
Some(x) == <<x>>

Digits == <<"0", "1", "2", "3", "4", "5", "6", "7", "8", "9">>
DigitSet == {Digits[i] : i \in 1..10}
DigitVal(c) == (CHOOSE i \in 1..10 : Digits[i] = c) - 1
Whitespace == {" ", "\t", "\n"}

\* str.replace(old, new) for one-character old and new
Replace(s, old, new) == [i \in 1..Len(s) |-> IF s[i] = old THEN new ELSE s[i]]

Count(s, c) == Cardinality({i \in 1..Len(s) : s[i] = c})

FirstIndex(s, c) == CHOOSE i \in 1..Len(s) : s[i] = c /\ \A j \in 1..(i - 1) : s[j] # c

\* s.split(c, maxsplit=1)[0]
BeforeFirst(s, c) == IF Count(s, c) = 0 THEN s ELSE SubSeq(s, 1, FirstIndex(s, c) - 1)

AfterFirst(s, c) == SubSeq(s, FirstIndex(s, c) + 1, Len(s))

\* str.split() with no argument: the maximal runs of non-whitespace
RECURSIVE SplitFrom(_, _, _)
SplitFrom(s, i, cur) ==
    IF i > Len(s)
    THEN (IF cur = <<>> THEN <<>> ELSE <<cur>>)
    ELSE IF s[i] \in Whitespace
         THEN (IF cur = <<>> THEN <<>> ELSE <<cur>>) \o SplitFrom(s, i + 1, <<>>)
         ELSE SplitFrom(s, i + 1, Append(cur, s[i]))

Split(s) == SplitFrom(s, 1, <<>>)

\* ' '.join(words)
RECURSIVE Join(_)
Join(ws) ==
    IF ws = <<>> THEN <<>>
    ELSE IF Len(ws) = 1 THEN ws[1]
    ELSE ws[1] \o <<" ">> \o Join(Tail(ws))

\* int(s) of a string without whitespace or underscores: an optional sign and digits
IntBody(s) == IF Len(s) > 0 /\ s[1] \in {"+", "-"} THEN Tail(s) ELSE s

IsInt(s) == Len(IntBody(s)) > 0 /\ \A i \in 1..Len(IntBody(s)) : IntBody(s)[i] \in DigitSet

RECURSIVE DigitsVal(_)
DigitsVal(s) ==
    IF s = <<>> THEN 0
    ELSE 10 * DigitsVal(SubSeq(s, 1, Len(s) - 1)) + DigitVal(s[Len(s)])

IntVal(s) == IF s[1] = "-" THEN 0 - DigitsVal(IntBody(s)) ELSE DigitsVal(IntBody(s))

(***************************************************************************)
(* Time arithmetic and parsing.  A parser returns [ok, val]; ok = FALSE    *)
(* stands for the ValueError the Python code raises.                       *)
(***************************************************************************)
Raise == [ok |-> FALSE, val |-> 0]
Return(v) == [ok |-> TRUE, val |-> v]

time_minus(a, b) == a - b

parse_time(s) ==
    LET t == Replace(Replace(s, "?", "0"), "-", "0")
    IN  IF Count(t, ":") # 1 THEN Raise
        ELSE LET hour_str == BeforeFirst(t, ":")
                 min_str == AfterFirst(t, ":")
             IN  IF ~IsInt(hour_str) \/ ~IsInt(min_str) THEN Raise
                 ELSE IF IntVal(hour_str) \notin 0..23 \/ IntVal(min_str) \notin 0..59
                      THEN Raise
                      ELSE Return(60 * IntVal(hour_str) + IntVal(min_str))

parse_timedelta(s) ==
    IF s \in {<<"-", "-", ":", "-", "-">>, <<"-", ":", "-", "-">>} THEN Return(0)
    ELSE LET t == Replace(s, "?", "0")
         IN  IF Count(t, ":") # 1 THEN Raise
             ELSE LET hour_str == BeforeFirst(t, ":")
                      min_str == AfterFirst(t, ":")
                  IN  IF ~IsInt(hour_str) \/ ~IsInt(min_str) THEN Raise
                      ELSE Return(60 * IntVal(hour_str) + IntVal(min_str))

(***************************************************************************)
(* Records.                                                                *)
(***************************************************************************)
Record(start_time, end_time, activity_type, penalty, duration, label, sublabel, words) ==
    [start_time |-> start_time, end_time |-> end_time, activity_type |-> activity_type,
     penalty |-> penalty,
     duration |-> IF duration = None THEN time_minus(end_time, start_time) ELSE duration[1],
     label |-> label, sublabel |-> sublabel, words |-> words]

\* Record(ta, tb): every other parameter at its default
DefaultRecord(start_time, end_time) ==
    Record(start_time, end_time, <<"u">>, 0, None, <<>>, <<>>, None)

\* parse_line returns [ok, rec, errs]: errs are the entries print_error appends
ParseLineRaise == [ok |-> FALSE, rec |-> DefaultRecord(0, 0), errs |-> <<>>]

\* parse_line keeping end - start instead of the declared duration
parse_line_ComputedDuration(words) ==
    IF Len(words) < 6 THEN ParseLineRaise
    ELSE LET st == parse_time(words[2])
             et == parse_time(words[3])
             pn == parse_timedelta(words[4])
             du == parse_timedelta(words[5])
         IN  IF ~st.ok \/ ~et.ok \/ ~pn.ok \/ ~du.ok THEN ParseLineRaise
             ELSE LET end_time == IF et.val = 0 THEN st.val ELSE et.val
                  IN  [ok |-> TRUE,
                       rec |-> Record(st.val, end_time, words[1], pn.val, None, words[6],
                                      IF Len(words) > 6 THEN words[7] ELSE <<>>, words),
                       errs |-> IF time_minus(end_time, st.val) # du.val
                                THEN <<"incorrect duration">> ELSE <<>>]

parse_line(words) ==
    IF Len(words) < 6 THEN ParseLineRaise
    ELSE LET activity_type == words[1]
             label == words[6]
             rest == SubSeq(words, 7, Len(words))
             st == parse_time(words[2])
             et == parse_time(words[3])
             pn == parse_timedelta(words[4])
             du == parse_timedelta(words[5])
         IN  IF ~st.ok \/ ~et.ok \/ ~pn.ok \/ ~du.ok THEN ParseLineRaise
             ELSE LET start_time == st.val
                      end_time == IF et.val = 0 THEN start_time ELSE et.val
                      sublabel == IF rest # <<>> THEN rest[1] ELSE <<>>
                  IN  [ok |-> TRUE,
                       rec |-> Record(start_time, end_time, activity_type, pn.val,
                                      Some(du.val), label, sublabel, words),
                       errs |-> IF time_minus(end_time, start_time) # du.val
                                THEN <<"incorrect duration">> ELSE <<>>]

\* the words parse_file gives parse_line for a line ("" when the line is skipped)
LineWords(line) ==
    LET words == Split(BeforeFirst(line, "#"))
    IN  IF words # <<>> /\ Len(line) > 0 /\ line[1] = " " THEN <<<<"u">>>> \o words ELSE words

\* the loop body with a gap record also when previous.end = new.start
ParseStep_GapOnEqual(recs, prev, line) ==
    LET words == LineWords(line)
    IN  IF words = <<>> THEN [ok |-> TRUE, records |-> recs, prev_record |-> prev, errs |-> <<>>]
        ELSE LET r == parse_line(words)
             IN  IF ~r.ok THEN [ok |-> FALSE, records |-> recs, prev_record |-> prev, errs |-> <<>>]
                 ELSE [ok |-> TRUE,
                       records |-> IF prev # None /\ prev[1].end_time <= r.rec.start_time
                                   THEN recs \o <<DefaultRecord(prev[1].end_time, r.rec.start_time),
                                                  r.rec>>
                                   ELSE Append(recs, r.rec),
                       prev_record |-> Some(r.rec),
                       errs |-> r.errs]

\* the loop body without gap records
ParseStep_NoGap(recs, prev, line) ==
    LET words == LineWords(line)
    IN  IF words = <<>> THEN [ok |-> TRUE, records |-> recs, prev_record |-> prev, errs |-> <<>>]
        ELSE LET r == parse_line(words)
             IN  IF ~r.ok THEN [ok |-> FALSE, records |-> recs, prev_record |-> prev, errs |-> <<>>]
                 ELSE [ok |-> TRUE, records |-> Append(recs, r.rec),
                       prev_record |-> Some(r.rec), errs |-> r.errs]

\* one iteration of parse_file's loop: [ok, records, prev_record, errs]
ParseStep(recs, prev, line) ==
    LET words == LineWords(line)
    IN  IF words = <<>> THEN [ok |-> TRUE, records |-> recs, prev_record |-> prev, errs |-> <<>>]
        ELSE LET r == parse_line(words)
             IN  IF ~r.ok THEN [ok |-> FALSE, records |-> recs, prev_record |-> prev, errs |-> <<>>]
                 ELSE [ok |-> TRUE,
                       records |-> IF prev # None /\ prev[1].end_time < r.rec.start_time
                                   THEN recs \o <<DefaultRecord(prev[1].end_time, r.rec.start_time),
                                                  r.rec>>
                                   ELSE Append(recs, r.rec),
                       prev_record |-> Some(r.rec),
                       errs |-> r.errs]

(***************************************************************************)
(* augment_records_with_current_time, without the print of now: the new    *)
(* list and the entries print_error appends.  timedelta(minutes=x) is x.   *)
(***************************************************************************)
STALE_EXEMPT_TYPES == {<<"s">>, <<"j">>}

\* the augmenter with one change: extend (a zero-length record of another type is not
\* extended) or exempt (no type is stale-exempt)
AugmentWith(recs, stale_limit, now_time, extend_zero_length, exempt) ==
    LET last_record == recs[Len(recs)]
        last_time == last_record.end_time
        diff0 == time_minus(now_time, last_record.start_time)
        extend == \/ last_record.activity_type = <<"u">>
                  \/ (extend_zero_length /\ last_time = last_record.start_time)
        diff == IF extend THEN diff0 ELSE time_minus(now_time, last_time)
    IN  IF now_time < last_time THEN [records |-> recs, errs |-> <<>>]
        ELSE [records |->
                  IF extend
                  THEN [recs EXCEPT ![Len(recs)] =
                            [last_record EXCEPT !.end_time = now_time, !.duration = diff0]]
                  ELSE Append(recs, DefaultRecord(last_time, now_time)),
              errs |->
                  IF stale_limit # None /\ last_record.activity_type \notin exempt
                     /\ diff > stale_limit[1]
                  THEN <<"stale-limit reached">> ELSE <<>>]

augment_ExtendOnlyUncounted(recs, stale_limit, now_time) ==
    AugmentWith(recs, stale_limit, now_time, FALSE, STALE_EXEMPT_TYPES)

augment_NoExemptTypes(recs, stale_limit, now_time) ==
    AugmentWith(recs, stale_limit, now_time, TRUE, {})

augment_records_with_current_time(recs, stale_limit, now_time) ==
    LET last_record == recs[Len(recs)]
        last_time == last_record.end_time
        diff0 == time_minus(now_time, last_record.start_time)
        extend == last_record.activity_type = <<"u">> \/ last_time = last_record.start_time
        diff == IF extend THEN diff0 ELSE time_minus(now_time, last_time)
    IN  IF now_time < last_time THEN [records |-> recs, errs |-> <<>>]
        ELSE [records |->
                  IF extend
                  THEN [recs EXCEPT ![Len(recs)] =
                            [last_record EXCEPT !.end_time = now_time, !.duration = diff0]]
                  ELSE Append(recs, DefaultRecord(last_time, now_time)),
              errs |->
                  IF stale_limit # None
                     /\ last_record.activity_type \notin STALE_EXEMPT_TYPES
                     /\ diff > stale_limit[1]
                  THEN <<"stale-limit reached">> ELSE <<>>]

(***************************************************************************)
(* Aggregation.  An OrderedDict is the sequence of its items [key, val]    *)
(* in insertion order; a key is the pair <<activity_type, key>>.           *)
(***************************************************************************)
HasKey(d, k) == \E i \in 1..Len(d) : d[i].key = k

IndexOf(d, k) == CHOOSE i \in 1..Len(d) : d[i].key = k

AggRaise == [ok |-> FALSE, val |-> <<>>]

\* the key and the display attribute of one record under a grouping mode
GroupKey(record, aggregate_by) ==
    IF aggregate_by = None THEN Return(<<"t", "o", "t", "a", "l">>)
    ELSE IF aggregate_by = Some("activity_type") THEN Return(record.activity_type)
    ELSE IF aggregate_by = Some("label") THEN Return(record.label)
    ELSE IF aggregate_by = Some("sublabel")
         THEN Return(record.label \o <<".">> \o record.sublabel)
    ELSE AggRaise

GroupAttr(record, aggregate_by) ==
    IF aggregate_by = None THEN <<>> ELSE record.activity_type

\* the accumulation that never finds the key, and the one that assigns instead of adding
Accumulate_AlwaysAppend(d, k, duration) == Append(d, [key |-> k, val |-> 0 + duration])

Accumulate_Overwrite(d, k, duration) ==
    IF HasKey(d, k)
    THEN [d EXCEPT ![IndexOf(d, k)].val = duration]
    ELSE Append(d, [key |-> k, val |-> duration])

\* lines 227-229: d[(activity_type, key)] += record.duration, created at 0 when absent
Accumulate(d, k, duration) ==
    IF HasKey(d, k)
    THEN [d EXCEPT ![IndexOf(d, k)].val = @ + duration]
    ELSE Append(d, [key |-> k, val |-> 0 + duration])

RECURSIVE TotalTimesFrom(_, _, _, _)
TotalTimesFrom(recs, i, aggregate_by, d) ==
    IF i > Len(recs) THEN [ok |-> TRUE, val |-> d]
    ELSE LET key == GroupKey(recs[i], aggregate_by)
         IN  IF ~key.ok THEN AggRaise
             ELSE TotalTimesFrom(recs, i + 1, aggregate_by,
                      Accumulate(d, <<GroupAttr(recs[i], aggregate_by), key.val>>,
                                 recs[i].duration))

get_total_times(recs, aggregate_by) == TotalTimesFrom(recs, 1, aggregate_by, <<>>)

RECURSIVE AddFrom(_, _, _)
AddFrom(dest, source, i) ==
    IF i > Len(source) THEN dest
    ELSE AddFrom(IF HasKey(dest, source[i].key)
                 THEN [dest EXCEPT ![IndexOf(dest, source[i].key)].val = @ + source[i].val]
                 ELSE Append(dest, source[i]),
                 source, i + 1)

\* the merge that assigns dest[k] = v for a key dest already has
RECURSIVE AddFrom_Overwrite(_, _, _)
AddFrom_Overwrite(dest, source, i) ==
    IF i > Len(source) THEN dest
    ELSE AddFrom_Overwrite(IF HasKey(dest, source[i].key)
                           THEN [dest EXCEPT ![IndexOf(dest, source[i].key)].val = source[i].val]
                           ELSE Append(dest, source[i]),
                           source, i + 1)

add_to_dict_Overwrite(dest, source) == AddFrom_Overwrite(dest, source, 1)

\* add_to_dict(dest, source): the new contents of dest
add_to_dict(dest, source) == AddFrom(dest, source, 1)

\* line 421: the records that are not zero-length
NonZeroLength(recs) == SelectSeq(recs, LAMBDA r : r.start_time # r.end_time)

(***************************************************************************)
(* Inputs: the lines a file may hold, the times datetime.now() may give    *)
(* and the values of --stale-limit.                                        *)
(***************************************************************************)
HM(a, b, c, d) == <<a, b, ":", c, d>>
HMM(a, c, d) == <<a, ":", c, d>>
Dashes == <<"-", "-", ":", "-", "-">>
Dashes3 == <<"-", ":", "-", "-">>

Line(indent, words, comment) ==
    (IF indent THEN <<" ">> ELSE <<>>) \o Join(words)
        \o (IF comment THEN <<" ", "#", " ", "c">> ELSE <<>>) \o <<"\n">>

\* "+ 09:00 09:30 --:-- 0:30 w"
LWork == Line(FALSE, <<<<"+">>, HM("0", "9", "0", "0"), HM("0", "9", "3", "0"), Dashes,
                       HMM("0", "3", "0"), <<"w">>>>, FALSE)
\* "- 09:30 10:00 --:-- 0:30 b t": starts where LWork ends; has a sublabel
LBreak == Line(FALSE, <<<<"-">>, HM("0", "9", "3", "0"), HM("1", "0", "0", "0"), Dashes,
                        HMM("0", "3", "0"), <<"b">>, <<"t">>>>, FALSE)
\* "+ 10:15 10:30 -:-- 0:10 w # c": declared 0:10 for a span of 0:15
LLate == Line(FALSE, <<<<"+">>, HM("1", "0", "1", "5"), HM("1", "0", "3", "0"), Dashes3,
                       HMM("0", "1", "0"), <<"w">>>>, TRUE)
\* " 10:00 10:30 --:-- 0:30 w": indented, so of type 'u'
LIdle == Line(TRUE, <<HM("1", "0", "0", "0"), HM("1", "0", "3", "0"), Dashes,
                      HMM("0", "3", "0"), <<"w">>>>, FALSE)
\* "s 10:?? 00:00 0:05 --:-- w x": zero-length by the 00:00 shorthand, stale-exempt type
LNap == Line(FALSE, <<<<"s">>, HM("1", "0", "?", "?"), HM("0", "0", "0", "0"),
                      HMM("0", "0", "5"), Dashes, <<"w">>, <<"x">>>>, FALSE)
\* "+ 10:30 ??:?? --:-- 0:00 m": zero-length, type '+'
LMark == Line(FALSE, <<<<"+">>, HM("1", "0", "3", "0"), HM("?", "?", "?", "?"), Dashes,
                       HMM("0", "0", "0"), <<"m">>>>, FALSE)
\* "# c": nothing but a comment
LComment == <<"#", " ", "c", "\n">>
\* "+ 09:x0 10:00 --:-- 1:00 w": a time that is no number
LBadTime == Line(FALSE, <<<<"+">>, HM("0", "9", "x", "0"), HM("1", "0", "0", "0"), Dashes,
                          HMM("1", "0", "0"), <<"w">>>>, FALSE)
\* "+ 09:00 10:00": too few words
LShort == Line(FALSE, <<<<"+">>, HM("0", "9", "0", "0"), HM("1", "0", "0", "0")>>, FALSE)
\* "+ 00:01 23:59 --:-- 23:58 w"
LLong == Line(FALSE, <<<<"+">>, HM("0", "0", "0", "1"), HM("2", "3", "5", "9"), Dashes,
                       HM("2", "3", "5", "8"), <<"w">>>>, FALSE)

Lines == {LWork, LBreak, LLate, LIdle, LNap, LMark, LComment, LBadTime, LShort}

\* 09:45, 10:30, 10:40
Nows == {585, 630, 640}

StaleLimits == {None, Some(20)}

(***************************************************************************)
(* FileSpec: one file, read line by line (parse_file), then what main      *)
(* does with its records: lines 418-419 (Augment) and 421-437 without the  *)
(* merges (Aggregate), which here also groups by sublabel.                 *)
(***************************************************************************)
NoRun ==
    /\ fileno = 0
    /\ all_aggs = <<>>
    /\ type_aggs = <<>>
    /\ label_aggs = <<>>
    /\ total_total_time = 0
    /\ days = <<>>
    /\ merged = <<>>
    /\ status = None

NoFile ==
    /\ lineno = 0
    /\ records = <<>>
    /\ prev_record = None
    /\ now = None
    /\ all_agg = <<>>
    /\ type_agg = <<>>
    /\ label_agg = <<>>
    /\ sublabel_agg = <<>>

FileInit ==
    /\ pc = "parsing"
    /\ args \in [use_now : BOOLEAN, stale_limit : StaleLimits, ignore_missing : {FALSE}]
    /\ errors = <<>>
    /\ printed_now = FALSE
    /\ NoFile
    /\ NoRun

runVars == <<fileno, all_aggs, type_aggs, label_aggs, total_total_time, days, merged, status>>
aggVars == <<all_agg, type_agg, label_agg, sublabel_agg>>

\* one iteration of the loop of parse_file (lines 167-179)
ParseLine(line) ==
    /\ pc = "parsing"
    /\ lineno < MaxLines
    /\ lineno' = lineno + 1
    /\ LET st == ParseStep(records, prev_record, line)
       IN  /\ pc' = IF st.ok THEN "parsing" ELSE "ValueError"
           /\ records' = st.records
           /\ prev_record' = st.prev_record
           /\ errors' = errors \o st.errs
    /\ UNCHANGED <<args, printed_now, now, aggVars, runVars>>

\* lines 418-419 and 187-207
Augment(now_time) ==
    /\ pc = "parsing"
    /\ args.use_now
    /\ records # <<>>
    /\ now' = Some(now_time)
    /\ printed_now' = TRUE
    /\ LET r == augment_records_with_current_time(records, args.stale_limit, now_time)
       IN  /\ records' = r.records
           /\ errors' = errors \o r.errs
    /\ pc' = "augmented"
    /\ UNCHANGED <<args, lineno, prev_record, aggVars, runVars>>

\* lines 421-425, and the aggregations of lines 433-437
Aggregate ==
    /\ \/ pc = "parsing" /\ (~args.use_now \/ records = <<>>)
       \/ pc = "augmented"
    /\ records' = NonZeroLength(records)
    /\ IF records' = <<>>
       THEN /\ pc' = "empty"
            /\ errors' = IF args.ignore_missing THEN errors ELSE Append(errors, "empty")
            /\ UNCHANGED aggVars
       ELSE /\ pc' = "aggregated"
            /\ all_agg' = get_total_times(records', None).val
            /\ type_agg' = get_total_times(records', Some("activity_type")).val
            /\ label_agg' = get_total_times(records', Some("label")).val
            /\ sublabel_agg' = get_total_times(records', Some("sublabel")).val
            /\ UNCHANGED errors
    /\ UNCHANGED <<args, printed_now, lineno, prev_record, now, runVars>>

FileNext ==
    \/ \E line \in Lines : ParseLine(line)
    \/ \E now_time \in Nows : Augment(now_time)
    \/ Aggregate

FileSpec == FileInit /\ [][FileNext]_vars

(***************************************************************************)
(* Spec: a run of main() over the files named on the command line.  A file *)
(* is the sequence of its lines; parse_file is the loop of ParseStep.      *)
(***************************************************************************)
RECURSIVE ParseFrom(_, _, _, _, _)
ParseFrom(lines, i, recs, prev, errs) ==
    IF i > Len(lines) THEN [ok |-> TRUE, records |-> recs, errs |-> errs]
    ELSE LET st == ParseStep(recs, prev, lines[i])
         IN  IF ~st.ok THEN [ok |-> FALSE, records |-> recs, errs |-> errs]
             ELSE ParseFrom(lines, i + 1, st.records, st.prev_record, errs \o st.errs)

\* parse_file of an existing file: [ok, records, errs]; ok = FALSE is the ValueError
parse_file(lines) == ParseFrom(lines, 1, <<>>, None, <<>>)

\* pretty_str_timedelta_2: td.days != 0 records an error
HasDays(td) == td < 0 \/ td >= 1440

\* the entries get_day_context records through pretty_str_timedelta_2
DayErrors(agg, recs) ==
    [i \in 1..Cardinality({j \in 1..Len(agg) : HasDays(agg[j].val)}
                          \cup {Len(agg) + j : j \in {k \in 1..Len(recs) : HasDays(recs[k].duration)}})
        |-> "has days"]

FClean == <<LWork, LBreak>>
FGap == <<LWork, LLate>>
FNap == <<LNap>>
FBad == <<LWork, LBadTime, LBreak>>
FShort == <<LShort>>
FLong == <<LLong, LLong>>
FDesc == <<LBreak, LWork>>
FBlank == <<LComment>>
FIdle == <<LIdle>>
FNeg == <<LIdle, LWork>>

Files == {FClean, FGap, FNap, FBad, FShort, FLong, FDesc, FBlank, FIdle, FNeg}

Init ==
    /\ pc = "loop"
    /\ args \in [use_now : BOOLEAN, stale_limit : StaleLimits, ignore_missing : BOOLEAN]
    /\ errors = <<>>
    /\ printed_now = FALSE
    /\ NoFile
    /\ NoRun

\* lines 410-416: parse_file raises FileNotFoundError
Missing ==
    /\ pc = "loop"
    /\ fileno < MaxFiles
    /\ fileno' = fileno + 1
    /\ errors' = IF args.ignore_missing THEN errors ELSE Append(errors, "missing")
    /\ UNCHANGED <<pc, args, printed_now, lineno, records, prev_record, now, aggVars,
                   all_aggs, type_aggs, label_aggs, total_total_time, days, merged, status>>

\* lines 410-446: one iteration of the loop over fpaths, for a file that exists
ProcessFile(lines, now_time) ==
    /\ pc = "loop"
    /\ fileno < MaxFiles
    /\ fileno' = fileno + 1
    \* p, aug and recs are the values of parse_file(fpath), of records after line 419
    \* and of records after line 421
    /\ \E p \in {parse_file(lines)} :
       \E aug \in {IF p.ok /\ args.use_now /\ p.records # <<>>
                   THEN augment_records_with_current_time(p.records, args.stale_limit, now_time)
                   ELSE [records |-> p.records, errs |-> <<>>]} :
       \E recs \in {NonZeroLength(aug.records)} :
       LET augmented == p.ok /\ args.use_now /\ p.records # <<>>
           errs1 == errors \o p.errs \o aug.errs
           total_time == time_minus(recs[Len(recs)].end_time, recs[1].start_time)
       IN  /\ now' = IF augmented THEN Some(now_time) ELSE now
           /\ printed_now' = (printed_now \/ augmented)
           /\ IF ~p.ok
              THEN /\ pc' = "ValueError"
                   /\ errors' = errs1
                   /\ UNCHANGED <<records, aggVars, all_aggs, type_aggs, label_aggs,
                                  total_total_time, days, merged>>
              ELSE IF recs = <<>>
              THEN /\ pc' = "loop"
                   /\ records' = recs
                   /\ errors' = IF args.ignore_missing THEN errs1 ELSE Append(errs1, "empty")
                   /\ UNCHANGED <<aggVars, all_aggs, type_aggs, label_aggs,
                                  total_total_time, days, merged>>
              ELSE /\ records' = recs
                   /\ total_total_time' = total_total_time + total_time
                   /\ all_agg' = get_total_times(recs, None).val
                   /\ type_agg' = get_total_times(recs, Some("activity_type")).val
                   /\ label_agg' = get_total_times(recs, Some("label")).val
                   /\ UNCHANGED sublabel_agg
                   /\ all_aggs' = add_to_dict(all_aggs, all_agg')
                   /\ type_aggs' = add_to_dict(type_aggs, type_agg')
                   /\ label_aggs' = add_to_dict(label_aggs, label_agg')
                   /\ merged' = Append(merged, [all |-> all_agg', type |-> type_agg',
                                                label |-> label_agg'])
                   /\ IF total_time = 0
                      THEN \* pretty_str_timedelta or get_day_context divides by total_time
                           /\ pc' = "ZeroDivisionError"
                           /\ errors' \in {errs1} \cup
                                  (IF HasDays(type_agg'[1].val)
                                   THEN {Append(errs1, "has days")} ELSE {})
                           /\ UNCHANGED days
                      ELSE /\ pc' = "loop"
                           /\ errors' = errs1 \o DayErrors(type_agg', recs)
                           /\ days' = Append(days, [fpath |-> fileno', total_time |-> total_time])
    /\ UNCHANGED <<args, lineno, prev_record, status>>

\* the return value that ignores the error list
ExitStatus_AlwaysZero(errs) == 0

\* line 459: the return value of main
ExitStatus(errs) == IF Len(errs) > 0 THEN 1 ELSE 0

\* lines 448-459: the summary, the report, print_all_errors and the return value
Finish ==
    /\ pc = "loop"
    /\ fileno >= 1
    /\ IF fileno > 1 /\ all_aggs # <<>> /\ total_total_time = 0
       THEN pc' = "ZeroDivisionError" /\ UNCHANGED status
       ELSE pc' = "done" /\ status' = Some(ExitStatus(errors))
    /\ UNCHANGED <<args, errors, printed_now, lineno, records, prev_record, now, aggVars,
                   fileno, all_aggs, type_aggs, label_aggs, total_total_time, days, merged>>

Next ==
    \/ Missing
    \/ \E lines \in Files, now_time \in Nows : ProcessFile(lines, now_time)
    \/ Finish

Spec == Init /\ [][Next]_vars

(***************************************************************************)
(* Properties of parse_file and parse_line (FileSpec).                     *)
(***************************************************************************)
RECURSIVE SumSeq(_)
SumSeq(q) == IF q = <<>> THEN 0 ELSE q[1] + SumSeq(Tail(q))

Durations(recs) == [i \in 1..Len(recs) |-> recs[i].duration]

\* a step of parse_file's loop that parsed a line into a record
ParsedALine == pc = "parsing" /\ pc' = "parsing" /\ Len(records') > Len(records)

\* C1: parse_file puts a gap record (start = previous.end, end = new.start, type 'u',
\* empty label) immediately before the new record exactly when a previous record
\* exists and previous.end < new.start; otherwise it only appends the new record.
C1_GapExactlyWhenEarlier ==
    [][ParsedALine =>
        LET new == prev_record'[1]
            n == Len(records)
        IN  IF prev_record # None /\ prev_record[1].end_time < new.start_time
            THEN /\ Len(records') = n + 2
                 /\ SubSeq(records', 1, n) = records
                 /\ records'[n + 1].start_time = prev_record[1].end_time
                 /\ records'[n + 1].end_time = new.start_time
                 /\ records'[n + 1].activity_type = <<"u">>
                 /\ records'[n + 1].label = <<>>
                 /\ records'[n + 1].words = None
                 /\ records'[n + 2] = new
            ELSE records' = Append(records, new)]_vars

\* a gap record sits between two parsed records, after a pair with no gap between them
C1_Witness ==
    /\ pc = "parsing"
    /\ Len(records) = 4
    /\ records[1].end_time = records[2].start_time
    /\ records[2].words # None
    /\ records[3].words = None
    /\ records[3].start_time < records[3].end_time
    /\ records[4].words # None

\* C2: the record parse_line returns carries the declared duration, and exactly one
\* error is recorded when the declared duration differs from end - start (end being
\* start when the end token parses to 00:00), none when they agree.
C2_DeclaredDurationOneError ==
    [][ParsedALine =>
        LET new == prev_record'[1]
            start == parse_time(new.words[2]).val
            endtok == parse_time(new.words[3]).val
            end == IF endtok = 0 THEN start ELSE endtok
            declared == parse_timedelta(new.words[5]).val
        IN  /\ new.duration = declared
            /\ SubSeq(errors', 1, Len(errors)) = errors
            /\ Len(errors') = Len(errors) + (IF declared # end - start THEN 1 ELSE 0)]_vars

\* a line whose declared duration is not end - start was parsed, and one whose is
C2_Witness ==
    /\ pc = "parsing"
    /\ Len(errors) = 1
    /\ \E i, j \in 1..Len(records) :
           /\ records[i].words # None
           /\ records[i].duration # records[i].end_time - records[i].start_time
           /\ records[j].words # None
           /\ records[j].duration = records[j].end_time - records[j].start_time
           /\ records[j].duration > 0

\* the records that come from lines (a gap record has no words)
C10_Parsed == SelectSeq(records, LAMBDA r : r.words # None)

C10_WellFormedFile ==
    /\ \A i \in 1..Len(C10_Parsed) :
           C10_Parsed[i].duration = C10_Parsed[i].end_time - C10_Parsed[i].start_time
    /\ \A i \in 1..(Len(C10_Parsed) - 1) :
           C10_Parsed[i + 1].start_time >= C10_Parsed[i].end_time

\* C10: when every parsed line declares end - start and no line starts before the
\* previous one ends, the records of the file (before augmentation) are contiguous and
\* their durations sum to last.end - first.start.
C10_GapFillingCovers ==
    (pc = "parsing" /\ records # <<>> /\ C10_WellFormedFile) =>
        /\ \A i \in 1..(Len(records) - 1) : records[i].end_time = records[i + 1].start_time
        /\ SumSeq(Durations(records)) = records[Len(records)].end_time - records[1].start_time

\* a well-formed file of two lines with uncovered time between them
C10_Witness ==
    /\ pc = "parsing"
    /\ C10_WellFormedFile
    /\ Len(records) = 3
    /\ records[2].words = None
    /\ records[2].duration > 0

(***************************************************************************)
(* Properties of augment_records_with_current_time (FileSpec).             *)
(***************************************************************************)
\* a step that is the call of augment_records_with_current_time
Augmented == pc = "parsing" /\ pc' = "augmented"

\* C3: with now >= last.end, a last record of type 'u' or of zero length is replaced
\* in place by itself with end = now and duration = now - start; otherwise one record
\* of type 'u' spanning [last.end, now) is appended; the other records are unchanged.
C3_ExtendOrAppend ==
    [][(Augmented /\ now'[1] >= records[Len(records)].end_time) =>
        LET n == Len(records)
            last == records[n]
        IN  IF last.activity_type = <<"u">> \/ last.end_time = last.start_time
            THEN records' = [records EXCEPT ![n] =
                                [last EXCEPT !.end_time = now'[1],
                                             !.duration = now'[1] - last.start_time]]
            ELSE /\ Len(records') = n + 1
                 /\ SubSeq(records', 1, n) = records
                 /\ records'[n + 1].start_time = last.end_time
                 /\ records'[n + 1].end_time = now'[1]
                 /\ records'[n + 1].duration = now'[1] - last.end_time
                 /\ records'[n + 1].activity_type = <<"u">>]_vars

\* a zero-length last record of a type other than 'u' was extended to a later now
C3_Witness ==
    /\ pc = "augmented"
    /\ Len(records) >= 2
    /\ records[Len(records)].words # None
    /\ records[Len(records)].activity_type # <<"u">>
    /\ parse_time(records[Len(records)].words[3]).val = 0
    /\ records[Len(records)].end_time = now[1]
    /\ records[Len(records)].duration > 0

C4_Added == Len(errors') - Len(errors)

\* C4 as stated: a stale error exactly when a limit is set, the last record's type is
\* not exempt and now - last.end (as logged) exceeds the limit; at most one; none when
\* now < last.end.
C4_StaleByEndTime ==
    [][Augmented =>
        LET last == records[Len(records)]
        IN  /\ C4_Added \in {0, 1}
            /\ (now'[1] < last.end_time => C4_Added = 0)
            /\ (C4_Added = 1 <=>
                   /\ args.stale_limit # None
                   /\ last.activity_type \notin {<<"s">>, <<"j">>}
                   /\ now'[1] - last.end_time > args.stale_limit[1])]_vars

\* C4 amended: the elapsed time is now - last.start when the last record is extended
\* in place (type 'u' or zero length) and now - last.end when a record is appended,
\* and an error is recorded only when now >= last.end.
C4_StaleByExtendedSpan ==
    [][Augmented =>
        LET last == records[Len(records)]
            elapsed == IF last.activity_type = <<"u">> \/ last.end_time = last.start_time
                       THEN now'[1] - last.start_time
                       ELSE now'[1] - last.end_time
        IN  /\ C4_Added \in {0, 1}
            /\ SubSeq(errors', 1, Len(errors)) = errors
            /\ (C4_Added = 1 <=>
                   /\ now'[1] >= last.end_time
                   /\ args.stale_limit # None
                   /\ last.activity_type \notin {<<"s">>, <<"j">>}
                   /\ elapsed > args.stale_limit[1])]_vars

\* a stale error for a last record of type 'u' that ended within the limit before now
C4_Witness ==
    /\ pc = "augmented"
    /\ args.stale_limit # None
    /\ errors = <<"stale-limit reached">>
    /\ Len(records) = 1
    /\ records[1].activity_type = <<"u">>
    /\ records[1].end_time = now[1]
    /\ now[1] - parse_time(records[1].words[3]).val <= args.stale_limit[1]

(***************************************************************************)
(* Properties of get_total_times (FileSpec), on the maps of a file.        *)
(***************************************************************************)
\* the grouping value and the display attribute of a record, per grouping mode
C5_Value(r, mode) ==
    CASE mode = "none" -> <<"t", "o", "t", "a", "l">>
      [] mode = "type" -> r.activity_type
      [] mode = "label" -> r.label
      [] mode = "sublabel" -> r.label \o <<".">> \o r.sublabel

C5_Attr(r, mode) == IF mode = "none" THEN <<>> ELSE r.activity_type

C5_Map(mode) ==
    CASE mode = "none" -> all_agg
      [] mode = "type" -> type_agg
      [] mode = "label" -> label_agg
      [] mode = "sublabel" -> sublabel_agg

C5_Modes == {"none", "type", "label", "sublabel"}

C5_ValuesDistinct(m) ==
    \A i, j \in 1..Len(m) : i # j => m[i].key[2] # m[j].key[2]

\* C5 as stated: in every mode the map has exactly one entry per grouping value that
\* occurs among the records, and no two entries share a grouping value.
C5_OneEntryPerValue ==
    pc = "aggregated" =>
        \A mode \in C5_Modes :
            /\ {C5_Map(mode)[i].key[2] : i \in 1..Len(C5_Map(mode))}
                   = {C5_Value(records[k], mode) : k \in 1..Len(records)}
            /\ C5_ValuesDistinct(C5_Map(mode))

\* C5 amended: in every mode the map has exactly one entry per pair (activity type,
\* grouping value) that occurs among the records; in the none and by-type modes no two
\* entries share a grouping value.
C5_OneEntryPerPair ==
    pc = "aggregated" =>
        /\ \A mode \in C5_Modes :
               /\ {C5_Map(mode)[i].key : i \in 1..Len(C5_Map(mode))}
                      = {<<C5_Attr(records[k], mode), C5_Value(records[k], mode)>> :
                            k \in 1..Len(records)}
               /\ \A i, j \in 1..Len(C5_Map(mode)) :
                      i # j => C5_Map(mode)[i].key # C5_Map(mode)[j].key
        /\ C5_ValuesDistinct(all_agg)
        /\ C5_ValuesDistinct(type_agg)

\* one label under two activity types, and two records that fall under one pair
C5_Witness ==
    /\ pc = "aggregated"
    /\ \E i, j \in 1..Len(label_agg) : i # j /\ label_agg[i].key[2] = label_agg[j].key[2]
    /\ Len(label_agg) < Len(records)

\* the records of type t, and the index of the first of them
C6_OfType(t) == SelectSeq(records, LAMBDA r : r.activity_type = t)

C6_FirstSeen(t) ==
    CHOOSE k \in 1..Len(records) :
        records[k].activity_type = t /\ \A l \in 1..(k - 1) : records[l].activity_type # t

\* C6: by activity type, each type that occurs maps to the sum of the durations of the
\* records of that type, the entries are in the order the types are first seen, and
\* the values sum to the single 'total' entry of the none mode.
C6_ByTypeSums ==
    pc = "aggregated" =>
        /\ \A k \in 1..Len(records) :
               \E i \in 1..Len(type_agg) : type_agg[i].key[2] = records[k].activity_type
        /\ \A i \in 1..Len(type_agg) :
               /\ C6_OfType(type_agg[i].key[2]) # <<>>
               /\ type_agg[i].val = SumSeq(Durations(C6_OfType(type_agg[i].key[2])))
        /\ \A i, j \in 1..Len(type_agg) :
               i < j => C6_FirstSeen(type_agg[i].key[2]) < C6_FirstSeen(type_agg[j].key[2])
        /\ Len(all_agg) = 1
        /\ all_agg[1].key = <<<<>>, <<"t", "o", "t", "a", "l">>>>
        /\ SumSeq([i \in 1..Len(type_agg) |-> type_agg[i].val]) = all_agg[1].val

\* three records of two types, the first type seen again after the second
C6_Witness ==
    /\ pc = "aggregated"
    /\ Len(records) >= 3
    /\ Len(type_agg) = 2
    /\ records[1].activity_type # records[2].activity_type
    /\ records[3].activity_type = records[1].activity_type
    /\ records[3].duration > 0

(***************************************************************************)
(* Properties of a run of main (Spec).                                     *)
(***************************************************************************)
C7_Keys(m) == {m[i].key : i \in 1..Len(m)}

C7_Lookup(m, k) == IF HasKey(m, k) THEN m[IndexOf(m, k)].val ELSE 0

\* where key k is first seen in the sequence of merged maps: <<map, position>>
C7_FirstSeen(maps, k) ==
    LET f == CHOOSE f \in 1..Len(maps) :
                 HasKey(maps[f], k) /\ \A g \in 1..(f - 1) : ~HasKey(maps[g], k)
    IN  <<f, IndexOf(maps[f], k)>>

C7_Before(a, b) == a[1] < b[1] \/ (a[1] = b[1] /\ a[2] < b[2])

C7_IsMergeOf(total, maps) ==
    /\ C7_Keys(total) = UNION {C7_Keys(maps[f]) : f \in 1..Len(maps)}
    /\ \A i, j \in 1..Len(total) : i # j => total[i].key # total[j].key
    /\ \A i \in 1..Len(total) :
           total[i].val = SumSeq([f \in 1..Len(maps) |-> C7_Lookup(maps[f], total[i].key)])
    /\ \A i, j \in 1..Len(total) :
           i < j => C7_Before(C7_FirstSeen(maps, total[i].key),
                              C7_FirstSeen(maps, total[j].key))

\* C7: the running totals hold, for every key of a merged per-file map and no other,
\* the sum of that key's values over the merged maps, the keys in the order they are
\* first seen over the files; the map merged last is still the file's own map.
C7_TotalsAreTheMerge ==
    /\ C7_IsMergeOf(all_aggs, [f \in 1..Len(merged) |-> merged[f].all])
    /\ C7_IsMergeOf(type_aggs, [f \in 1..Len(merged) |-> merged[f].type])
    /\ C7_IsMergeOf(label_aggs, [f \in 1..Len(merged) |-> merged[f].label])
    /\ merged # <<>> =>
           merged[Len(merged)] = [all |-> all_agg, type |-> type_agg, label |-> label_agg]

\* two files merged: a type of both, and a type only the second one has
C7_Witness ==
    /\ Len(merged) = 2
    /\ \E k \in C7_Keys(merged[1].type) \cap C7_Keys(merged[2].type) :
           C7_Lookup(merged[1].type, k) > 0 /\ C7_Lookup(merged[2].type, k) > 0
    /\ C7_Keys(merged[2].type) \ C7_Keys(merged[1].type) # {}
    /\ C7_Keys(merged[1].type) \ C7_Keys(merged[2].type) # {}

\* C8: no issue of a file or of a line ends the run early: here, parse_file never
\* leaves main through a ValueError (a token that does not parse, too few words).
C8_NoLineIssueAbortsTheRun == pc # "ValueError"

C9_ListedKinds == {"incorrect duration", "stale-limit reached", "missing", "empty"}

C9_Recorded(kinds) == \E i \in 1..Len(errors) : errors[i] \in kinds

\* C9 as stated: at the end of a run the status is 0 exactly when no duration mismatch,
\* stale limit, missing file or empty file error was recorded.
C9_StatusByListedKinds ==
    pc = "done" => (status = Some(0) <=> ~C9_Recorded(C9_ListedKinds))

\* C9 amended: at the end of a run the status is 0 exactly when no error of any kind
\* was recorded, the listed kinds or the "has days" error of a day's report; the error
\* list only grows; with ignore-missing set no missing or empty error is recorded.
C9_StatusByAllErrors ==
    /\ [](/\ pc = "done" => /\ status \in {Some(0), Some(1)}
                             /\ status = Some(0) <=> errors = <<>>
          /\ \A i \in 1..Len(errors) : errors[i] \in C9_ListedKinds \cup {"has days"}
          /\ args.ignore_missing => ~C9_Recorded({"missing", "empty"}))
    /\ [][Len(errors') >= Len(errors) /\ SubSeq(errors', 1, Len(errors)) = errors]_vars

\* a run ends with status 1 having recorded only "has days" errors
C9_Witness ==
    /\ pc = "done"
    /\ status = Some(1)
    /\ errors # <<>>
    /\ ~C9_Recorded(C9_ListedKinds)

====
